---- MODULE Spec2Model ----
(***************************************************************************)
(* The chat client of AI Access Guard: AuthProvider (token, user,          *)
(* localStorage, the /login and /me requests) and the AIChat page (the     *)
(* WebSocket it holds in wsRef, its message list and connection flags).    *)
(* The server side of the chat protocol and the components that are not    *)
(* part of the sources (ProtectedRoute, SignInForm) follow the             *)
(* specification and the README.                                           *)
(***************************************************************************)
EXTENDS Integers, Sequences, FiniteSets, TLC

VARIABLES
    \* AuthProvider
    user, token, isLoading, stored, authMounted, requests,
    \* router: the App definition that is built and the location
    app, route,
    \* AIChat (the mounted page instance)
    mounted, messages, inputMessage, isConnected, isConnecting,
    connectionError, wsRef,
    \* the WebSockets created so far and the pending setTimeout callbacks
    sockets, timers,
    \* history: logout() has run and login() has not been called since
    sinceLogout,
    \* history: the pending timers that were set before the last login() resolved
    staleTimers,
    \* Chat (the document chat): its state and the /query requests in flight
    query, selectedModel, loading, response, error, pending,
    \* Chat (document upload): its state, the position of handleUpload, the
    \* bytes reported so far, the uploads started, the pending 200 ms and
    \* 3-second timers (the upload that set each, oldest first)
    uploading, uploadProgress, uploadedDocs, uploadSuccess, uploadError,
    uploadPc, loaded, uploadCount, progressTimers, cleanupTimers,
    \* Metrics: its state, the position of initializeMetrics, the
    \* fetchMetrics calls in flight and the number of calls made
    metrics, hourlyData, monthlyData, metricsLoading, metricsError,
    demoDataLoaded, timeRange, timeRangeRef, initPc, fetches, fetchCount

authVars == <<user, token, isLoading, stored, authMounted, requests>>
chatVars == <<mounted, messages, inputMessage, isConnected,
              isConnecting, connectionError, wsRef>>
docVars == <<query, selectedModel, loading, response, error, pending>>
uploadVars == <<uploading, uploadProgress, uploadedDocs, uploadSuccess,
                uploadError, uploadPc, loaded, uploadCount, progressTimers,
                cleanupTimers>>
metricsVars == <<metrics, hourlyData, monthlyData, metricsLoading,
                 metricsError, demoDataLoaded, timeRange, timeRangeRef,
                 initPc, fetches, fetchCount>>
pageVars == <<docVars, uploadVars, metricsVars>>
vars == <<authVars, app, route, chatVars, sockets, timers, sinceLogout,
          staleTimers, pageVars>>

----------------------------------------------------------------------------
\* Bounds of the model: the sockets created and the entries of the message list
\* in a chat session, the sockets created where only connections are followed
MaxSockets == 2
MaxMessages == 3
MaxConnSockets == 2
\* the entries of the message list where one connection is followed
MaxTurnMessages == 4
\* the sockets created where a change of account under the chat page is followed
MaxRaceSockets == 3

----------------------------------------------------------------------------
\* Values
Null == "null"
\* useState<QueryResponse | null>(null): no response
NoResponse == [answer |-> Null]
\* uploadProgress when it is null
NoProgress == [stage |-> Null, percent |-> 0]
\* uploadSuccess when it is null
NoSuccess == [chunks_count |-> 0]
\* metrics when it is null
NoMetrics == [range |-> Null]
Tokens == {"tA", "tB"}
Users == {"alice", "bob"}

\* the identity /me returns for a token
Identity(t) == IF t = "tA" THEN "alice" ELSE "bob"
\* the access_token /login issues for a user
TokenOf(u) == IF u = "alice" THEN "tA" ELSE "tB"

\* the two definitions of App and the paths of their route tables; "*" is any
\* location that no other path matches
Apps == {"first", "second"}
Routes == {"/", "/signin", "/chat", "*"}

\* <Routes> with the chat route left outside ProtectedRoute
RouteTableChatPublic(a) ==
    [rt \in Routes |->
        CASE rt = "/signin" -> [page |-> "SignIn", protected |-> FALSE]
          [] rt = "/chat"   -> [page |-> "AIChat", protected |-> FALSE]
          [] rt = "*"       -> [page |-> "NotFound", protected |-> FALSE]
          [] rt = "/"       -> IF a = "first"
                               THEN [page |-> "HomePage", protected |-> FALSE]
                               ELSE [page |-> "AIChat", protected |-> TRUE]]

\* <Routes>: the element of every path, and whether it is wrapped in
\* ProtectedRoute
RouteTable(a) ==
    [rt \in Routes |->
        CASE rt = "/signin" -> [page |-> "SignIn", protected |-> FALSE]
          [] rt = "/chat"   -> [page |-> "AIChat", protected |-> TRUE]
          [] rt = "*"       -> [page |-> "NotFound", protected |-> FALSE]
          [] rt = "/"       -> IF a = "first"
                               THEN [page |-> "HomePage", protected |-> FALSE]
                               ELSE [page |-> "AIChat", protected |-> TRUE]]

\* close codes of the chat transport: normal and abnormal closure, and the two
\* codes ws.onclose tests for
MissingCredential == 4001
InvalidCredential == 4002
ReauthCodes == {MissingCredential, InvalidCredential}
RetryCodes == {1000, 1006}
CloseCodes == RetryCodes \cup ReauthCodes

TerminalTypes == {"assistant", "blocked", "pii_detected", "error"}
\* the layer values of blocked frames on the wire
Layers == {"content_safety", "guardrails"}
\* the terminal frames the model's server sends: their type and layer
ServedTypes ==
    {[type |-> t, layer |-> Null] : t \in {"assistant", "pii_detected", "error"}}
        \cup {[type |-> "blocked", layer |-> l] : l \in Layers}

\* texts the user can type, as sequences of characters
Inputs == {<<>>, <<" ">>, <<" ", "a">>}
Whitespace == {" "}

ErrNoToken == "No authentication token. Please log in."
ErrConnection == "Connection error occurred"
ErrInvalidToken == "Invalid or expired token. Please re-login."
ErrNoTokenProvided == "No token provided. Please re-login."
ErrClosed == "Connection closed. Click reconnect to try again."
ErrNotConnected == "Not connected. Please reconnect."

----------------------------------------------------------------------------
\* String.prototype.trim on a sequence of characters
RECURSIVE TrimStart(_)
TrimStart(s) ==
    IF s = <<>> THEN <<>>
    ELSE IF Head(s) \in Whitespace THEN TrimStart(Tail(s)) ELSE s

RECURSIVE TrimEnd(_)
TrimEnd(s) ==
    IF s = <<>> THEN <<>>
    ELSE IF s[Len(s)] \in Whitespace THEN TrimEnd(SubSeq(s, 1, Len(s) - 1)) ELSE s

trim(s) == TrimEnd(TrimStart(s))

\* value.isAuthenticated
isAuthenticated == token # Null /\ user # Null

----------------------------------------------------------------------------
\* new WebSocket(`${WS_URL}/ws/chat?token=${token}`); live: the page instance that
\* created it is still mounted, so its callbacks' setState calls take effect
NewSocket(tok) ==
    [live |-> TRUE, state |-> "CONNECTING", code |-> 0, sent |-> <<>>,
     served |-> 0, outbox |-> <<>>]

\* WebSocket.close(): a socket that is connecting or open starts closing
CloseSocket(sock) ==
    IF sock.state \in {"CONNECTING", "OPEN"}
    THEN [sock EXCEPT !.state = "CLOSING"]
    ELSE sock

\* disconnectWebSocket leaving the socket of wsRef open
disconnectWebSocketNoClose(socks, ref) == socks

\* disconnectWebSocket, on the sockets; wsRef.current becomes null (0)
disconnectWebSocket(socks, ref) ==
    IF ref # 0 THEN [socks EXCEPT ![ref] = CloseSocket(@)] ELSE socks

\* the page instance is unmounted: the sockets it created stay, their
\* callbacks' setState calls do nothing from now on, so the frames still
\* to be delivered to it are left out
Detach(socks) ==
    [i \in DOMAIN socks |-> [socks[i] EXCEPT !.live = FALSE, !.outbox = <<>>]]

\* the callbacks of socket s still reach a mounted component
Current(s) == sockets[s].live

\* ProtectedRoute: spinner while loading, redirect to /signin when not
\* authenticated, the page otherwise
ProtectedRedirects(tok, usr, ld, rt) ==
    RouteTable(app)[rt].protected /\ ~ld /\ ~(tok # Null /\ usr # Null)

ProtectedShows(tok, usr, ld, rt) ==
    RouteTable(app)[rt].protected /\ ~ld /\ tok # Null /\ usr # Null

\* the element of the location is AIChat and it is rendered
ChatShows(tok, usr, ld, rt) ==
    /\ RouteTable(app)[rt].page = "AIChat"
    /\ RouteTable(app)[rt].protected => ProtectedShows(tok, usr, ld, rt)

\* The render that follows a change of the auth state or of the location, with
\* the effects of AIChat: unmount runs the cleanup (disconnectWebSocket), mount
\* and a changed token run connectWebSocket. An AIChat rendered without a token
\* connects nothing and navigates to /signin (its redirect effect).
Commit(tok, usr, ld, rt) ==
    LET rt1 == IF ProtectedRedirects(tok, usr, ld, rt) THEN "/signin" ELSE rt
        rt2 == IF ChatShows(tok, usr, ld, rt1) /\ tok = Null THEN "/signin" ELSE rt1
        show == ChatShows(tok, usr, ld, rt2)
    IN  /\ token' = tok
        /\ user' = usr
        /\ isLoading' = ld
        /\ route' = rt2
        /\ CASE mounted /\ ~show ->
                  /\ mounted' = FALSE
                  /\ sockets' = Detach(disconnectWebSocket(sockets, wsRef))
                  /\ wsRef' = 0
                  /\ messages' = <<>>
                  /\ inputMessage' = <<>>
                  /\ isConnected' = FALSE
                  /\ isConnecting' = FALSE
                  /\ connectionError' = ""
             [] mounted /\ show /\ tok # token ->
                  /\ sockets' = Append(disconnectWebSocket(sockets, wsRef),
                                       NewSocket(tok))
                  /\ wsRef' = Len(sockets) + 1
                  /\ isConnecting' = TRUE
                  /\ connectionError' = ""
                  /\ UNCHANGED <<mounted, messages, inputMessage, isConnected>>
             [] ~mounted /\ show ->
                  /\ mounted' = TRUE
                  /\ sockets' = Append(sockets, NewSocket(tok))
                  /\ wsRef' = Len(sockets) + 1
                  /\ messages' = <<>>
                  /\ inputMessage' = <<>>
                  /\ isConnected' = FALSE
                  /\ isConnecting' = TRUE
                  /\ connectionError' = ""
             [] OTHER -> UNCHANGED <<chatVars, sockets>>

----------------------------------------------------------------------------
\* AuthProvider

\* the requests in flight: GET /me with a token, from the mount effect or from
\* login(); POST /login with the credentials of a user
MeRequest(tok, origin) ==
    [kind |-> "me", tok |-> tok, origin |-> origin, cred |-> Null]

LoginRequest(u) ==
    [kind |-> "login", tok |-> Null, origin |-> "form", cred |-> u]

Init ==
    /\ user = Null
    /\ token = Null
    /\ isLoading = TRUE
    /\ stored \in Tokens \cup {Null}
    /\ authMounted = FALSE
    /\ requests = {}
    /\ app \in Apps
    /\ route \in Routes
    /\ mounted = FALSE
    /\ messages = <<>>
    /\ inputMessage = <<>>
    /\ isConnected = FALSE
    /\ isConnecting = FALSE
    /\ connectionError = ""
    /\ wsRef = 0
    /\ sockets = <<>>
    /\ timers = 0
    /\ sinceLogout = FALSE
    /\ staleTimers = 0
    /\ query = <<>>
    /\ selectedModel = "llama-3.1-8b-instant"
    /\ loading = FALSE
    /\ response = NoResponse
    /\ error = Null
    /\ pending = {}
    /\ uploading = FALSE
    /\ uploadProgress = NoProgress
    /\ uploadedDocs = <<>>
    /\ uploadSuccess = NoSuccess
    /\ uploadError = Null
    /\ uploadPc = [at |-> "idle", chunks |-> 0]
    /\ loaded = 0
    /\ uploadCount = 0
    /\ progressTimers = <<>>
    /\ cleanupTimers = <<>>
    /\ metrics = NoMetrics
    /\ hourlyData = Null
    /\ monthlyData = Null
    /\ metricsLoading = TRUE
    /\ metricsError = Null
    /\ demoDataLoaded = FALSE
    /\ timeRange = "monthly"
    /\ timeRangeRef = "monthly"
    /\ initPc = "check"
    /\ fetches = {}
    /\ fetchCount = 0

\* logout() without localStorage.removeItem('token')
logoutKeepsStorage == [user |-> Null, token |-> Null, stored |-> stored]

\* logout(): setUser(null), setToken(null), localStorage.removeItem('token')
logout == [user |-> Null, token |-> Null, stored |-> Null]

\* the mount effect: load the token from localStorage and fetch the user
AuthMount ==
    /\ ~authMounted
    /\ authMounted' = TRUE
    /\ IF stored # Null
       THEN /\ requests' = requests \cup {MeRequest(stored, "mount")}
            /\ Commit(stored, user, isLoading, route)
       ELSE /\ UNCHANGED requests
            /\ Commit(token, user, FALSE, route)
    /\ UNCHANGED <<stored, timers, sinceLogout, staleTimers>>

\* the sign-in form calls login(username, password): POST /login
LoginCall(u) ==
    /\ authMounted
    /\ route = "/signin"
    /\ \A r \in requests : r.kind # "login" /\ r.origin # "login"
    /\ requests' = requests \cup {LoginRequest(u)}
    /\ sinceLogout' = FALSE
    /\ UNCHANGED <<user, token, isLoading, stored, authMounted, route, chatVars,
                   sockets, timers, staleTimers>>

\* /login answered: setToken, localStorage.setItem, then fetchUserInfo
LoginOk(r) ==
    /\ r.kind = "login"
    /\ stored' = TokenOf(r.cred)
    /\ requests' = (requests \ {r}) \cup {MeRequest(TokenOf(r.cred), "login")}
    /\ Commit(TokenOf(r.cred), user, isLoading, route)
    /\ UNCHANGED <<authMounted, timers, sinceLogout, staleTimers>>

\* the details the server gives for a rejected /login, or none
Details == {"Incorrect username or password", Null}

\* the message of the Error login() throws
loginError(detail) ==
    IF detail # Null THEN detail ELSE "Login failed. Please check your credentials."

\* the catch of login() clearing the session as logout() does
loginCatchClears(tok, usr, st) == logout

\* the catch of login() when /login failed: token, user and localStorage as it
\* leaves them
loginCatch(tok, usr, st) == [token |-> tok, user |-> usr, stored |-> st]

\* /login failed: login() throws, nothing is set
LoginFail(r) ==
    /\ r.kind = "login"
    /\ requests' = requests \ {r}
    /\ LET c == loginCatch(token, user, stored)
       IN  /\ stored' = c.stored
           /\ Commit(c.token, c.user, isLoading, route)
    /\ UNCHANGED <<authMounted, timers, sinceLogout, staleTimers>>

\* where the location is after fetchUserInfo returns: a login() that resolves
\* lets the sign-in form navigate to the chat
AfterFetch(r) == IF r.origin = "login" THEN "/chat" ELSE route

\* fetchUserInfo, /me answered: setUser(response.data), finally setIsLoading(false)
MeOk(r) ==
    /\ r.kind = "me"
    /\ requests' = requests \ {r}
    /\ Commit(token, Identity(r.tok), FALSE, AfterFetch(r))
    /\ staleTimers' = IF r.origin = "login" THEN timers ELSE staleTimers
    /\ UNCHANGED <<stored, authMounted, timers, sinceLogout>>

\* fetchUserInfo, /me failed: logout(), finally setIsLoading(false)
MeFail(r) ==
    /\ r.kind = "me"
    /\ requests' = requests \ {r}
    /\ stored' = logout.stored
    /\ sinceLogout' = TRUE
    /\ Commit(logout.token, logout.user, FALSE, AfterFetch(r))
    /\ UNCHANGED <<authMounted, timers, staleTimers>>

\* the Logout button of the chat header: logout(); navigate('/signin')
LogoutClick ==
    /\ mounted
    /\ stored' = logout.stored
    /\ sinceLogout' = TRUE
    /\ Commit(logout.token, logout.user, isLoading, "/signin")
    /\ UNCHANGED <<authMounted, requests, timers, staleTimers>>

\* the callback of setTimeout(..., 2000) set by ws.onclose: logout(); navigate('/signin')
TimerFire ==
    /\ timers > 0
    /\ timers' = timers - 1
    /\ staleTimers' = IF staleTimers > 0 THEN staleTimers - 1 ELSE 0
    /\ stored' = logout.stored
    /\ sinceLogout' = TRUE
    /\ Commit(logout.token, logout.user, isLoading, "/signin")
    /\ UNCHANGED <<authMounted, requests>>

\* the user moves to another location inside the application (a link, the
\* history buttons)
UserNavigate(rt) ==
    /\ authMounted
    /\ rt # route
    /\ Commit(token, user, isLoading, rt)
    /\ UNCHANGED <<stored, authMounted, requests, timers, sinceLogout, staleTimers>>

----------------------------------------------------------------------------
\* AIChat

\* the clock, read as the time since the page was mounted: every message sent
\* and every frame emitted on a socket of the page takes one tick
Clock(socks) ==
    LET RECURSIVE Ticks(_)
        Ticks(i) == IF i = 0 THEN 0
                    ELSE (IF socks[i].live
                          THEN Len(socks[i].sent) + socks[i].served
                          ELSE 0) + Ticks(i - 1)
    IN  Ticks(Len(socks))

\* userMessage: { type: 'user', message, timestamp: new Date().toISOString() }
UserEntry(text, s, turn, ts) ==
    [type |-> "user", text |-> text, layer |-> Null, timestamp |-> ts,
     sock |-> s, turn |-> turn]

\* a frame of the server; the assistant frames carry the server's timestamp,
\* the others none (0)
Frame(kind, s, turn, ts) ==
    [type |-> kind.type, text |-> <<>>, layer |-> kind.layer,
     timestamp |-> IF kind.type = "assistant" THEN ts ELSE 0,
     sock |-> s, turn |-> turn]

\* the line 'Blocked by: ...' of a message bubble, shown when msg.layer is set
BlockedBy(msg) ==
    IF msg.layer = Null THEN Null
    ELSE IF msg.layer = "llama_guard" THEN "Llama Guard" ELSE "Guardrails"

\* getMessageStyles: the colour of the bubble of a message type
getMessageStyles(type) ==
    CASE type = "user" -> "blue"
      [] type \in {"assistant", "response"} -> "gray"
      [] type = "blocked" -> "red"
      [] type = "connection" -> "green"
      [] type = "error" -> "orange"
      [] OTHER -> "default"

\* connectWebSocket without the test of the token
connectWebSocketNoTokenTest(tok, socks, ref, connecting, err) ==
    [sockets |-> Append(socks, NewSocket(tok)), wsRef |-> Len(socks) + 1,
     isConnecting |-> TRUE, connectionError |-> ""]

\* connectWebSocket: what it leaves on the sockets, in wsRef, isConnecting and
\* connectionError
connectWebSocket(tok, socks, ref, connecting, err) ==
    IF tok = Null
    THEN [sockets |-> socks, wsRef |-> ref, isConnecting |-> connecting,
          connectionError |-> ErrNoToken]
    ELSE [sockets |-> Append(socks, NewSocket(tok)), wsRef |-> Len(socks) + 1,
          isConnecting |-> TRUE, connectionError |-> ""]

\* connectWebSocket called from the Reconnect button, offered when
\* !isConnected && !isConnecting
ReconnectClick ==
    /\ mounted
    /\ ~isConnected
    /\ ~isConnecting
    /\ LET r == connectWebSocket(token, sockets, wsRef, isConnecting, connectionError)
       IN  /\ sockets' = r.sockets
           /\ wsRef' = r.wsRef
           /\ isConnecting' = r.isConnecting
           /\ connectionError' = r.connectionError
    /\ UNCHANGED <<authVars, route, mounted, messages, inputMessage,
                   isConnected, timers, sinceLogout, staleTimers>>

\* ws.onopen; the server greets with a connection frame
OnOpen(s) ==
    /\ sockets[s].state = "CONNECTING"
    /\ sockets' = [sockets EXCEPT ![s].state = "OPEN",
                                  ![s].outbox =
                                     <<Frame([type |-> "connection", layer |-> Null],
                                             s, 0, Clock(sockets))>>]
    /\ IF Current(s)
       THEN /\ isConnected' = TRUE
            /\ isConnecting' = FALSE
            /\ connectionError' = ""
       ELSE UNCHANGED <<isConnected, isConnecting, connectionError>>
    /\ UNCHANGED <<authVars, route, mounted, messages, inputMessage,
                   wsRef, timers, sinceLogout, staleTimers>>

\* ws.onmessage dropping the blocked frames
onmessageDropBlocked(msgs, data) ==
    IF data.type = "blocked" THEN msgs ELSE Append(msgs, data)

\* ws.onmessage with [data, ...prev]
onmessagePrepend(msgs, data) == <<data>> \o msgs

\* ws.onmessage: setMessages((prev) => [...prev, data])
onmessage(msgs, data) == Append(msgs, data)

OnMessage(s) ==
    /\ sockets[s].state \in {"OPEN", "CLOSING"}
    /\ sockets[s].outbox # <<>>
    /\ sockets' = [sockets EXCEPT ![s].outbox = Tail(@)]
    /\ IF Current(s)
       THEN messages' = onmessage(messages, Head(sockets[s].outbox))
       ELSE UNCHANGED messages
    /\ UNCHANGED <<authVars, route, mounted, inputMessage, isConnected,
                   isConnecting, connectionError, wsRef, timers, sinceLogout, staleTimers>>

\* ws.onerror
OnError(s) ==
    /\ sockets[s].state \in {"CONNECTING", "OPEN", "CLOSING"}
    /\ Current(s)
    /\ connectionError' = ErrConnection
    /\ UNCHANGED <<authVars, route, mounted, messages, inputMessage,
                   isConnected, isConnecting, wsRef, sockets, timers, sinceLogout, staleTimers>>

SchedulesLogoutOnlyInvalid(code) == code = InvalidCredential

SchedulesLogoutAlways(code) == TRUE

\* ws.onclose: which close codes schedule logout() and navigate('/signin')
SchedulesLogout(code) == code = InvalidCredential \/ code = MissingCredential

\* ws.onclose: the connection error it sets
CloseError(code) ==
    IF code = InvalidCredential THEN ErrInvalidToken
    ELSE IF code = MissingCredential THEN ErrNoTokenProvided
    ELSE ErrClosed

\* ws.onclose; the turn in flight is aborted with the transport
OnClose(s, code) ==
    /\ sockets[s].state # "CLOSED"
    /\ sockets' = [sockets EXCEPT ![s].state = "CLOSED", ![s].code = code,
                                  ![s].outbox = <<>>]
    /\ IF Current(s)
       THEN /\ isConnected' = FALSE
            /\ isConnecting' = FALSE
            /\ connectionError' = CloseError(code)
       ELSE UNCHANGED <<isConnected, isConnecting, connectionError>>
    /\ timers' = IF SchedulesLogout(code) THEN timers + 1 ELSE timers
    /\ UNCHANGED <<authVars, route, mounted, messages, inputMessage,
                   wsRef, sinceLogout, staleTimers>>

\* the textarea's onChange (the textarea is disabled unless isConnected)
TypeInput(v) ==
    /\ mounted
    /\ isConnected
    /\ v # inputMessage
    /\ inputMessage' = v
    /\ UNCHANGED <<authVars, route, mounted, messages, isConnected,
                   isConnecting, connectionError, wsRef, sockets, timers, sinceLogout, staleTimers>>

\* sendMessage testing the input for emptiness without trim()
sendMessageNoTrim(input, ref, socks, msgs, err) ==
    IF input = <<>>
    THEN [messages |-> msgs, sockets |-> socks, inputMessage |-> input,
          connectionError |-> err]
    ELSE IF ref = 0 \/ socks[ref].state # "OPEN"
    THEN [messages |-> msgs, sockets |-> socks, inputMessage |-> input,
          connectionError |-> ErrNotConnected]
    ELSE [messages |-> Append(msgs, UserEntry(input, ref, Len(socks[ref].sent) + 1, Clock(socks) + 1)),
          sockets |-> [socks EXCEPT ![ref].sent = Append(@, input)],
          inputMessage |-> <<>>,
          connectionError |-> err]

\* sendMessage testing wsRef.current but not its readyState
sendMessageNoReadyState(input, ref, socks, msgs, err) ==
    IF trim(input) = <<>>
    THEN [messages |-> msgs, sockets |-> socks, inputMessage |-> input,
          connectionError |-> err]
    ELSE IF ref = 0
    THEN [messages |-> msgs, sockets |-> socks, inputMessage |-> input,
          connectionError |-> ErrNotConnected]
    ELSE [messages |-> Append(msgs, UserEntry(input, ref, Len(socks[ref].sent) + 1, Clock(socks) + 1)),
          sockets |-> [socks EXCEPT ![ref].sent = Append(@, input)],
          inputMessage |-> <<>>,
          connectionError |-> err]

\* sendMessage with setMessages([userMessage])
sendMessageReplace(input, ref, socks, msgs, err) ==
    IF trim(input) = <<>>
    THEN [messages |-> msgs, sockets |-> socks, inputMessage |-> input,
          connectionError |-> err]
    ELSE IF ref = 0 \/ socks[ref].state # "OPEN"
    THEN [messages |-> msgs, sockets |-> socks, inputMessage |-> input,
          connectionError |-> ErrNotConnected]
    ELSE [messages |-> <<UserEntry(input, ref, Len(socks[ref].sent) + 1, Clock(socks) + 1)>>,
          sockets |-> [socks EXCEPT ![ref].sent = Append(@, input)],
          inputMessage |-> <<>>,
          connectionError |-> err]

\* sendMessage refusing to send once the last entry is an error or blocked frame
sendMessageStopsAfterError(input, ref, socks, msgs, err) ==
    IF trim(input) = <<>>
    THEN [messages |-> msgs, sockets |-> socks, inputMessage |-> input,
          connectionError |-> err]
    ELSE IF \/ ref = 0 \/ socks[ref].state # "OPEN"
            \/ (msgs # <<>> /\ msgs[Len(msgs)].type \in {"error", "blocked"})
    THEN [messages |-> msgs, sockets |-> socks, inputMessage |-> input,
          connectionError |-> ErrNotConnected]
    ELSE [messages |-> Append(msgs, UserEntry(input, ref, Len(socks[ref].sent) + 1, Clock(socks) + 1)),
          sockets |-> [socks EXCEPT ![ref].sent = Append(@, input)],
          inputMessage |-> <<>>,
          connectionError |-> err]

\* sendMessage sending the trimmed input
sendMessageSendsTrimmed(input, ref, socks, msgs, err) ==
    IF trim(input) = <<>>
    THEN [messages |-> msgs, sockets |-> socks, inputMessage |-> input,
          connectionError |-> err]
    ELSE IF ref = 0 \/ socks[ref].state # "OPEN"
    THEN [messages |-> msgs, sockets |-> socks, inputMessage |-> input,
          connectionError |-> ErrNotConnected]
    ELSE [messages |-> Append(msgs, UserEntry(input, ref, Len(socks[ref].sent) + 1, Clock(socks) + 1)),
          sockets |-> [socks EXCEPT ![ref].sent = Append(@, trim(input))],
          inputMessage |-> <<>>,
          connectionError |-> err]

\* sendMessage: what it leaves in messages, on the sockets, in inputMessage and
\* in connectionError
sendMessage(input, ref, socks, msgs, err) ==
    IF trim(input) = <<>>
    THEN [messages |-> msgs, sockets |-> socks, inputMessage |-> input,
          connectionError |-> err]
    ELSE IF ref = 0 \/ socks[ref].state # "OPEN"
    THEN [messages |-> msgs, sockets |-> socks, inputMessage |-> input,
          connectionError |-> ErrNotConnected]
    ELSE [messages |-> Append(msgs, UserEntry(input, ref, Len(socks[ref].sent) + 1, Clock(socks) + 1)),
          sockets |-> [socks EXCEPT ![ref].sent = Append(@, input)],
          inputMessage |-> <<>>,
          connectionError |-> err]

\* the Send button or the Enter key of the textarea
SendMessage ==
    /\ mounted
    /\ isConnected
    /\ LET r == sendMessage(inputMessage, wsRef, sockets, messages, connectionError)
       IN  /\ messages' = r.messages
           /\ sockets' = r.sockets
           /\ inputMessage' = r.inputMessage
           /\ connectionError' = r.connectionError
    /\ UNCHANGED <<authVars, route, mounted, isConnected, isConnecting,
                   wsRef, timers, sinceLogout, staleTimers>>

----------------------------------------------------------------------------
\* The server side of the chat transport: the session worker takes the next
\* message of the socket and emits exactly one terminal frame for it.
ServerRespond(s, type) ==
    /\ sockets[s].state = "OPEN"
    /\ sockets[s].served < Len(sockets[s].sent)
    /\ sockets' = [sockets EXCEPT
                     ![s].served = @ + 1,
                     ![s].outbox = Append(@, Frame(type, s, sockets[s].served + 1,
                                                   Clock(sockets) + 1))]
    /\ UNCHANGED <<authVars, route, chatVars, timers, sinceLogout, staleTimers>>

----------------------------------------------------------------------------
\* The chat session of one user: sign-in, connection, turns, logout.
SessionUsers == {"alice"}
\* the closes followed in a session: an abnormal closure and an invalid credential
SessionCloseCodes == {1006, InvalidCredential}
InitSession ==
    /\ Init
    /\ stored \in {TokenOf(u) : u \in SessionUsers} \cup {Null}
    /\ app = "second"
    /\ route \in {"/signin", "/chat"}

InSession(A) ==
    /\ A
    /\ UNCHANGED <<app, pageVars>>
    /\ Len(sockets') <= MaxSockets
    /\ Len(messages') <= MaxMessages

Next ==
    \/ InSession(AuthMount)
    \/ \E u \in SessionUsers : InSession(LoginCall(u))
    \/ \E r \in requests : InSession(LoginOk(r))
    \/ \E r \in requests : InSession(LoginFail(r))
    \/ \E r \in requests : InSession(MeOk(r))
    \/ \E r \in requests : InSession(MeFail(r))
    \/ InSession(LogoutClick)
    \/ InSession(TimerFire)
    \/ InSession(ReconnectClick)
    \/ \E s \in DOMAIN sockets : InSession(OnOpen(s))
    \/ \E s \in DOMAIN sockets : InSession(OnError(s))
    \/ \E s \in DOMAIN sockets, code \in SessionCloseCodes : InSession(OnClose(s, code))
    \/ \E s \in DOMAIN sockets : InSession(OnMessage(s))
    \/ \E v \in Inputs : InSession(TypeInput(v))
    \/ InSession(SendMessage)
    \/ \E s \in DOMAIN sockets, type \in ServedTypes : InSession(ServerRespond(s, type))

Spec == InitSession /\ [][Next]_vars

\* The turns on one connection of a user whose token is in localStorage and
\* who opens the application at /chat.
InitTurns ==
    /\ Init
    /\ stored = TokenOf("alice")
    /\ app = "second"
    /\ route = "/chat"

InTurns(A) ==
    /\ A
    /\ UNCHANGED <<app, pageVars>>
    /\ Len(sockets') <= 1
    /\ Len(messages') <= MaxTurnMessages

NextTurns ==
    \/ InTurns(AuthMount)
    \/ \E r \in requests : InTurns(MeOk(r))
    \/ \E s \in DOMAIN sockets : InTurns(OnOpen(s))
    \/ \E s \in DOMAIN sockets : InTurns(OnMessage(s))
    \/ \E s \in DOMAIN sockets, code \in SessionCloseCodes : InTurns(OnClose(s, code))
    \/ \E v \in Inputs : InTurns(TypeInput(v))
    \/ InTurns(SendMessage)
    \/ \E s \in DOMAIN sockets, type \in ServedTypes : InTurns(ServerRespond(s, type))

TurnSpec == InitTurns /\ [][NextTurns]_vars

\* The connections of the chat page when the account changes under it: alice's
\* token is in localStorage, the application is opened at /signin, and the
\* user signs in and moves between /signin and /chat.
InitRace ==
    /\ Init
    /\ stored = TokenOf("alice")
    /\ app = "first"
    /\ route = "/signin"

InRace(A) ==
    /\ A
    /\ UNCHANGED <<app, pageVars>>
    /\ Len(sockets') <= MaxRaceSockets

NextRace ==
    \/ InRace(AuthMount)
    \/ \E u \in Users : InRace(LoginCall(u))
    \/ \E r \in requests : InRace(LoginOk(r))
    \/ \E r \in requests : InRace(MeOk(r))
    \/ \E rt \in {"/signin", "/chat"} : InRace(UserNavigate(rt))
    \/ InRace(ReconnectClick)
    \/ \E s \in DOMAIN sockets : InRace(OnOpen(s))
    \/ \E s \in DOMAIN sockets, code \in RetryCodes : InRace(OnClose(s, code))

RaceSpec == InitRace /\ [][NextRace]_vars

\* The document chat.
Models == {"gpt-4", "claude-3-haiku-20240307", "llama-3.1-8b-instant"}

ErrEnterQuery == "Please enter a query"
ErrQueryFailed == "Failed to process query"

\* the responses of the query endpoint to a request: a cache hit costs nothing
\* and uses no tokens, a fresh call uses tokens and has a cost
QueryResponses(req) ==
    {[cache_hit |-> TRUE, tokens_used |-> 0, cost |-> 0,
      model_used |-> req.model, out_of_scope |-> o] : o \in BOOLEAN}
    \cup
    {[cache_hit |-> FALSE, tokens_used |-> t, cost |-> c,
      model_used |-> req.model, out_of_scope |-> o] :
        t \in {1, 2}, c \in {1, 2}, o \in BOOLEAN}

\* the status badge with the labels of its two branches exchanged
StatusBadgeSwapped(resp) == IF resp.cache_hit THEN "Fresh API Call" ELSE "From Cache"

\* the status badge of the response section
StatusBadge(resp) == IF resp.cache_hit THEN "From Cache" ELSE "Fresh API Call"

\* handleSubmit testing the query for emptiness without trim()
handleSubmitNoTrim(q, model, ld, resp, err, pend) ==
    IF q = <<>>
    THEN [loading |-> ld, response |-> resp, error |-> ErrEnterQuery, pending |-> pend]
    ELSE [loading |-> TRUE, response |-> NoResponse, error |-> Null,
          pending |-> pend \cup {[query |-> trim(q), model |-> model]}]

\* handleSubmit up to the /query request: what it leaves in loading, response
\* and error, and the requests in flight
handleSubmit(q, model, ld, resp, err, pend) ==
    IF trim(q) = <<>>
    THEN [loading |-> ld, response |-> resp, error |-> ErrEnterQuery, pending |-> pend]
    ELSE [loading |-> TRUE, response |-> NoResponse, error |-> Null,
          pending |-> pend \cup {[query |-> trim(q), model |-> model]}]

\* the textarea's onChange
SetQuery(v) ==
    /\ v # query
    /\ query' = v
    /\ UNCHANGED <<selectedModel, loading, response, error, pending>>

\* the model selector
SelectModel(m) ==
    /\ m # selectedModel
    /\ selectedModel' = m
    /\ UNCHANGED <<query, loading, response, error, pending>>

\* the submit button left enabled while loading
SubmitClickWhileLoading ==
    /\ trim(query) # <<>>
    /\ LET r == handleSubmit(query, selectedModel, loading, response, error, pending)
       IN  /\ loading' = r.loading
           /\ response' = r.response
           /\ error' = r.error
           /\ pending' = r.pending
    /\ UNCHANGED <<query, selectedModel>>

\* the submit button, disabled while loading or when the query is blank
SubmitClick ==
    /\ ~loading
    /\ trim(query) # <<>>
    /\ LET r == handleSubmit(query, selectedModel, loading, response, error, pending)
       IN  /\ loading' = r.loading
           /\ response' = r.response
           /\ error' = r.error
           /\ pending' = r.pending
    /\ UNCHANGED <<query, selectedModel>>

\* handleSubmit after /query answered: setResponse(result.data), finally
\* setLoading(false)
QueryOk(req, resp) ==
    /\ req \in pending
    /\ pending' = pending \ {req}
    /\ response' = resp
    /\ loading' = FALSE
    /\ UNCHANGED <<query, selectedModel, error>>

\* handleSubmit after /query failed: setError, finally setLoading(false)
QueryFail(req) ==
    /\ req \in pending
    /\ pending' = pending \ {req}
    /\ error' = ErrQueryFailed
    /\ loading' = FALSE
    /\ UNCHANGED <<query, selectedModel, response>>

InitDoc ==
    /\ Init
    /\ stored = Null
    /\ app = "first"
    /\ route = "/"

InDoc(A) ==
    /\ A
    /\ UNCHANGED <<authVars, app, route, chatVars, sockets, timers, sinceLogout, staleTimers>>
    /\ UNCHANGED <<uploadVars, metricsVars>>

NextDoc ==
    \/ \E v \in Inputs : InDoc(SetQuery(v))
    \/ \E m \in Models : InDoc(SelectModel(m))
    \/ InDoc(SubmitClick)
    \/ \E req \in pending : \E resp \in QueryResponses(req) : InDoc(QueryOk(req, resp))
    \/ \E req \in pending : InDoc(QueryFail(req))

DocSpec == InitDoc /\ [][NextDoc]_vars

----------------------------------------------------------------------------
\* Chat: document upload

\* the bytes of the uploaded file, in units reported by progress events
UploadTotal == 4
\* the uploads started in a run
MaxUploads == 2
\* chunks_count of the /upload responses
ChunkCounts == {1, 2}
ErrUploadFailed == "Failed to upload document"

\* UploadProgress['stage'], in the order handleUpload goes through them
Stages == <<"uploading", "extracting", "embedding", "storing", "complete">>
StageRank(stage) == CHOOSE i \in 1..Len(Stages) : Stages[i] = stage

\* Math.round((progressEvent.loaded * 25) / progressEvent.total)
ProgressPercent(l, total) == (2 * l * 25 + total) \div (2 * total)

\* onDrop with an accepted file (the dropzone is disabled while uploading):
\* handleUpload up to the POST /upload
StartUpload ==
    /\ ~uploading
    /\ uploadCount' = uploadCount + 1
    /\ uploading' = TRUE
    /\ uploadError' = Null
    /\ uploadSuccess' = NoSuccess
    /\ uploadProgress' = [stage |-> "uploading", percent |-> 10]
    /\ progressTimers' = Append(progressTimers, uploadCount')
    /\ uploadPc' = [at |-> "post", chunks |-> 0]
    /\ loaded' = 0
    /\ UNCHANGED <<uploadedDocs, cleanupTimers>>

\* the callback of setTimeout(..., 200); timers of equal delay run in the
\* order they were set
ProgressTimerFire ==
    /\ progressTimers # <<>>
    /\ progressTimers' = Tail(progressTimers)
    /\ uploadProgress' = [stage |-> "uploading", percent |-> 25]
    /\ UNCHANGED <<uploading, uploadedDocs, uploadSuccess, uploadError,
                   uploadPc, loaded, uploadCount, cleanupTimers>>

\* onUploadProgress while the request is being sent
OnUploadProgress(l) ==
    /\ uploadPc.at = "post"
    /\ l > loaded
    /\ loaded' = l
    /\ uploadProgress' =
           [stage |-> "uploading", percent |-> ProgressPercent(l, UploadTotal)]
    /\ UNCHANGED <<uploading, uploadedDocs, uploadSuccess, uploadError,
                   uploadPc, uploadCount, progressTimers, cleanupTimers>>

\* POST /upload answers: the first processing stage
UploadOk(chunks) ==
    /\ uploadPc.at = "post"
    /\ uploadProgress' = [stage |-> "extracting", percent |-> 35]
    /\ uploadPc' = [at |-> "extracting35", chunks |-> chunks]
    /\ UNCHANGED <<uploading, uploadedDocs, uploadSuccess, uploadError,
                   loaded, uploadCount, progressTimers, cleanupTimers>>

\* one of the awaited 300/400 ms pauses of handleUpload ends.  The first
\* pause is set after the 200 ms timer of the same upload and is longer, so
\* it ends after that timer has run.
StageStep ==
    /\ uploadPc.at = "extracting35" =>
           \A i \in 1..Len(progressTimers) : progressTimers[i] # uploadCount
    /\ uploadPc.at \in {"extracting35", "extracting50", "embedding65", "storing85"}
    /\ IF uploadPc.at = "extracting35"
       THEN /\ uploadProgress' = [stage |-> "extracting", percent |-> 50]
            /\ uploadPc' = [uploadPc EXCEPT !.at = "extracting50"]
            /\ UNCHANGED <<uploading, uploadedDocs, uploadSuccess, cleanupTimers>>
       ELSE IF uploadPc.at = "extracting50"
       THEN /\ uploadProgress' = [stage |-> "embedding", percent |-> 65]
            /\ uploadPc' = [uploadPc EXCEPT !.at = "embedding65"]
            /\ UNCHANGED <<uploading, uploadedDocs, uploadSuccess, cleanupTimers>>
       ELSE IF uploadPc.at = "embedding65"
       THEN /\ uploadProgress' = [stage |-> "storing", percent |-> 85]
            /\ uploadPc' = [uploadPc EXCEPT !.at = "storing85"]
            /\ UNCHANGED <<uploading, uploadedDocs, uploadSuccess, cleanupTimers>>
       ELSE /\ uploadProgress' = [stage |-> "complete", percent |-> 100]
            /\ uploadedDocs' = Append(uploadedDocs,
                   [filename |-> uploadCount, chunks_count |-> uploadPc.chunks])
            /\ uploadSuccess' = [chunks_count |-> uploadPc.chunks]
            /\ cleanupTimers' = Append(cleanupTimers, uploadCount)
            /\ uploading' = FALSE
            /\ uploadPc' = [at |-> "idle", chunks |-> 0]
    /\ UNCHANGED <<uploadError, loaded, uploadCount, progressTimers>>

\* POST /upload fails: catch and finally
UploadFail ==
    /\ uploadPc.at = "post"
    /\ uploadError' = ErrUploadFailed
    /\ uploadProgress' = NoProgress
    /\ uploading' = FALSE
    /\ uploadPc' = [at |-> "idle", chunks |-> 0]
    /\ UNCHANGED <<uploadedDocs, uploadSuccess, loaded, uploadCount,
                   progressTimers, cleanupTimers>>

\* the callback of setTimeout(..., 3000)
CleanupTimerFire ==
    /\ cleanupTimers # <<>>
    /\ cleanupTimers' = Tail(cleanupTimers)
    /\ uploadProgress' = NoProgress
    /\ uploadSuccess' = NoSuccess
    /\ UNCHANGED <<uploading, uploadedDocs, uploadError, uploadPc, loaded,
                   uploadCount, progressTimers>>

InitUpload ==
    /\ Init
    /\ stored = Null
    /\ app = "first"
    /\ route = "/"

InUpload(A) ==
    /\ A
    /\ UNCHANGED <<authVars, app, route, chatVars, sockets, timers, sinceLogout, staleTimers>>
    /\ UNCHANGED <<docVars, metricsVars>>
    /\ uploadCount' <= MaxUploads

NextUpload ==
    \/ InUpload(StartUpload)
    \/ InUpload(ProgressTimerFire)
    \/ \E l \in 1..UploadTotal : InUpload(OnUploadProgress(l))
    \/ \E c \in ChunkCounts : InUpload(UploadOk(c))
    \/ InUpload(StageStep)
    \/ InUpload(UploadFail)
    \/ InUpload(CleanupTimerFire)

UploadSpec == InitUpload /\ [][NextUpload]_vars

----------------------------------------------------------------------------
\* Metrics

\* the fetchMetrics calls made in a run
MaxFetchCalls == 5
TimeRanges == {"daily", "monthly"}
ErrFetchFailed == "Failed to fetch metrics"

\* the summary and the chart data are shown: not the spinner, not the error box
SummaryShown(ld, err, m) == ~ld /\ err = Null /\ m # NoMetrics

\* fetchMetrics(range) up to its first request; origin is the caller
fetchMetrics(range, origin, calls, n) ==
    [fetches |-> calls \cup {[id |-> n + 1, range |-> range,
                              origin |-> origin, at |-> "summary"]},
     fetchCount |-> n + 1]

\* what initializeMetrics does when the fetchMetrics call it awaits returns
InitContinues(f, calls, n) ==
    IF f.origin = "init1" THEN fetchMetrics("daily", "init2", calls, n)
    ELSE IF f.origin = "init2" THEN fetchMetrics("monthly", "init3", calls, n)
    ELSE [fetches |-> calls, fetchCount |-> n]

InitPcAfter(f) == IF f.origin = "init3" THEN "done" ELSE initPc

\* GET /metrics?range=monthly of initializeMetrics answers
CheckOk(empty) ==
    /\ initPc = "check"
    /\ IF empty
       THEN /\ initPc' = "seed"
            /\ UNCHANGED <<fetches, fetchCount>>
       ELSE /\ initPc' = "fetch"
            /\ LET r == fetchMetrics("monthly", "init1", fetches, fetchCount)
               IN  fetches' = r.fetches /\ fetchCount' = r.fetchCount
    /\ UNCHANGED <<metrics, hourlyData, monthlyData, metricsLoading,
                   metricsError, demoDataLoaded, timeRange, timeRangeRef>>

\* POST /seed-demo-data answers
SeedOk ==
    /\ initPc = "seed"
    /\ demoDataLoaded' = TRUE
    /\ initPc' = "fetch"
    /\ LET r == fetchMetrics("monthly", "init1", fetches, fetchCount)
       IN  fetches' = r.fetches /\ fetchCount' = r.fetchCount
    /\ UNCHANGED <<metrics, hourlyData, monthlyData, metricsLoading,
                   metricsError, timeRange, timeRangeRef>>

\* either request of initializeMetrics fails: its catch
InitFail ==
    /\ initPc \in {"check", "seed"}
    /\ initPc' = "done"
    /\ metricsLoading' = FALSE
    /\ UNCHANGED <<metrics, hourlyData, monthlyData, metricsError,
                   demoDataLoaded, timeRange, timeRangeRef, fetches, fetchCount>>

\* GET /metrics?range= of a fetchMetrics call answers: the chart request
SummaryOk(f) ==
    /\ f \in fetches
    /\ f.at = "summary"
    /\ fetches' = (fetches \ {f}) \cup {[f EXCEPT !.at = "chart"]}
    /\ UNCHANGED <<metrics, hourlyData, monthlyData, metricsLoading,
                   metricsError, demoDataLoaded, timeRange, timeRangeRef,
                   initPc, fetchCount>>

\* the chart request of a fetchMetrics call answers: the state is set, and
\* initializeMetrics goes on when the call was its own
ChartOk(f) ==
    /\ f \in fetches
    /\ f.at = "chart"
    /\ hourlyData' = IF f.range = "daily" THEN "daily" ELSE hourlyData
    /\ monthlyData' = IF f.range = "daily" THEN monthlyData ELSE "monthly"
    /\ metrics' = [range |-> f.range]
    /\ metricsError' = Null
    /\ metricsLoading' = FALSE
    /\ LET r == InitContinues(f, fetches \ {f}, fetchCount)
       IN  fetches' = r.fetches /\ fetchCount' = r.fetchCount
    /\ initPc' = InitPcAfter(f)
    /\ UNCHANGED <<demoDataLoaded, timeRange, timeRangeRef>>

\* either request of a fetchMetrics call fails: catch and finally
FetchFail(f) ==
    /\ f \in fetches
    /\ metricsError' = ErrFetchFailed
    /\ metricsLoading' = FALSE
    /\ LET r == InitContinues(f, fetches \ {f}, fetchCount)
       IN  fetches' = r.fetches /\ fetchCount' = r.fetchCount
    /\ initPc' = InitPcAfter(f)
    /\ UNCHANGED <<metrics, hourlyData, monthlyData, demoDataLoaded,
                   timeRange, timeRangeRef>>

\* the 5-second interval
PollTick ==
    /\ LET r == fetchMetrics(timeRangeRef, "poll", fetches, fetchCount)
       IN  fetches' = r.fetches /\ fetchCount' = r.fetchCount
    /\ UNCHANGED <<metrics, hourlyData, monthlyData, metricsLoading,
                   metricsError, demoDataLoaded, timeRange, timeRangeRef, initPc>>

\* a click on one of the range buttons, which are part of the summary view;
\* the effect on [timeRange] copies the new value to the ref
handleTimeRangeChange(range) ==
    /\ SummaryShown(metricsLoading, metricsError, metrics)
    /\ timeRange' = range
    /\ timeRangeRef' = range
    /\ LET r == fetchMetrics(range, "click", fetches, fetchCount)
       IN  fetches' = r.fetches /\ fetchCount' = r.fetchCount
    /\ UNCHANGED <<metrics, hourlyData, monthlyData, metricsLoading,
                   metricsError, demoDataLoaded, initPc>>

\* a metrics request is in flight
MetricsInFlight == fetches # {} \/ initPc \in {"check", "seed"}

InitMetrics ==
    /\ Init
    /\ stored = Null
    /\ app = "first"
    /\ route = "/"

InMetrics(A) ==
    /\ A
    /\ UNCHANGED <<authVars, app, route, chatVars, sockets, timers, sinceLogout, staleTimers>>
    /\ UNCHANGED <<docVars, uploadVars>>
    /\ fetchCount' <= MaxFetchCalls

NextMetrics ==
    \/ \E empty \in BOOLEAN : InMetrics(CheckOk(empty))
    \/ InMetrics(SeedOk)
    \/ InMetrics(InitFail)
    \/ \E f \in fetches : InMetrics(SummaryOk(f))
    \/ \E f \in fetches : InMetrics(ChartOk(f))
    \/ \E f \in fetches : InMetrics(FetchFail(f))
    \/ InMetrics(PollTick)
    \/ \E range \in TimeRanges : InMetrics(handleTimeRangeChange(range))

MetricsSpec == InitMetrics /\ [][NextMetrics]_vars

\* Authentication and connection management with every user and with
\* navigation inside the application; no turns.
InConn(A) ==
    /\ A
    /\ UNCHANGED <<app, pageVars>>
    /\ Len(sockets') <= MaxConnSockets

NextConn ==
    \/ InConn(AuthMount)
    \/ \E u \in Users : InConn(LoginCall(u))
    \/ \E r \in requests : InConn(LoginOk(r))
    \/ \E r \in requests : InConn(LoginFail(r))
    \/ \E r \in requests : InConn(MeOk(r))
    \/ \E r \in requests : InConn(MeFail(r))
    \/ InConn(LogoutClick)
    \/ InConn(TimerFire)
    \/ \E rt \in Routes : InConn(UserNavigate(rt))
    \/ InConn(ReconnectClick)
    \/ \E s \in DOMAIN sockets : InConn(OnOpen(s))
    \/ \E s \in DOMAIN sockets : InConn(OnError(s))
    \/ \E s \in DOMAIN sockets, code \in CloseCodes : InConn(OnClose(s, code))

ConnSpec == Init /\ [][NextConn]_vars

\* a timer that was set goes off
FairConnSpec == ConnSpec /\ WF_vars(InConn(TimerFire))

----------------------------------------------------------------------------
\* The session is cleared and the sign-in page is shown
ReauthDone == token = Null /\ user = Null /\ stored = Null /\ route = "/signin"

\* C1: a close of a chat socket with code 4001 or 4002 sets the timer of the
\* re-authentication, and a timer that is set leads to logout (token and user
\* null, no 'token' in localStorage) and to the location /signin.
C1_ReauthOnClose ==
    /\ [][\A s \in DOMAIN sockets, code \in ReauthCodes :
            OnClose(s, code) => timers' = timers + 1]_vars
    /\ (timers > 0) ~> ReauthDone

\* a socket was closed with 4001 or 4002, every timer has gone off, and the
\* session is cleared
C1_Witness ==
    /\ \E s \in DOMAIN sockets : sockets[s].code \in ReauthCodes
    /\ timers = 0
    /\ ReauthDone

\* C2: a close with a code other than 4001 and 4002 leaves token, user and
\* localStorage as they are and sets no timer; for a socket of the mounted page
\* it leaves isConnected and isConnecting false, the state in which Reconnect
\* is offered.
C2_RetryOnClose ==
    [][\A s \in DOMAIN sockets, code \in CloseCodes \ ReauthCodes :
         OnClose(s, code) =>
            /\ UNCHANGED <<token, user, stored, timers, route>>
            /\ sockets[s].live => mounted' /\ ~isConnected' /\ ~isConnecting']_vars

\* the socket of the mounted page was closed with a retry code and Reconnect
\* is offered, the session still in place
C2_Witness ==
    /\ wsRef # 0
    /\ sockets[wsRef].state = "CLOSED"
    /\ sockets[wsRef].code \in CloseCodes \ ReauthCodes
    /\ mounted /\ ~isConnected /\ ~isConnecting
    /\ connectionError = ErrClosed
    /\ token # Null /\ user # Null /\ stored # Null
    /\ timers = 0

----------------------------------------------------------------------------
\* Turns. A user entry and the terminal frame that answers it carry the socket
\* and the number of the turn on that socket.
IsUser(e) == e.type = "user"
IsTerminal(e) == e.type \in TerminalTypes

\* the terminal entries of the message list for turn t of socket s
Terminals(s, t) ==
    Cardinality({i \in DOMAIN messages :
                    /\ IsTerminal(messages[i])
                    /\ messages[i].sock = s
                    /\ messages[i].turn = t})

\* the frame of turn t of socket s is still to come: the server has not
\* answered the turn, or its frame has not been delivered
InFlight(s, t) ==
    \/ t > sockets[s].served
    \/ \E i \in DOMAIN sockets[s].outbox : sockets[s].outbox[i].turn = t

\* the turns of the terminal frames of a sequence of frames, in order
TerminalTurns(seq) ==
    LET sel == SelectSeq(seq, IsTerminal)
    IN  [i \in 1..Len(sel) |-> sel[i].turn]

\* the frames of socket s in a sequence
OfSocket(seq, s) ==
    LET Test(e) == e.sock = s
    IN  SelectSeq(seq, Test)

\* the turns of socket s whose frame the page has not received
Unanswered(s) ==
    Len(sockets[s].sent) - Len(TerminalTurns(OfSocket(messages, s)))

\* C3, as claimed: every user message gets exactly one terminal entry, never
\* more, and never none once nothing more can arrive on its socket.
C3_ExactlyOneTerminal ==
    \A i \in DOMAIN messages :
        IsUser(messages[i]) =>
            LET s == messages[i].sock
                t == messages[i].turn
            IN  /\ Terminals(s, t) <= 1
                /\ sockets[s].state = "CLOSED" => Terminals(s, t) = 1

\* C3, amended: every user message gets at most one terminal entry; while its
\* socket is not closed the turn has its terminal entry or its frame is still
\* to come, and not both; a turn whose socket closes first gets none.
C3_AtMostOneTerminal ==
    \A i \in DOMAIN messages :
        IsUser(messages[i]) =>
            LET s == messages[i].sock
                t == messages[i].turn
            IN  /\ Terminals(s, t) <= 1
                /\ sockets[s].state # "CLOSED" =>
                      (Terminals(s, t) = 1) = ~InFlight(s, t)

\* a turn with its one terminal entry, on a socket that is still open
C3_Witness ==
    \E i \in DOMAIN messages :
        /\ IsUser(messages[i])
        /\ sockets[messages[i].sock].state = "OPEN"
        /\ Terminals(messages[i].sock, messages[i].turn) = 1
        /\ ~InFlight(messages[i].sock, messages[i].turn)

C5_AppendOnly ==
    [][mounted /\ mounted' =>
         \/ messages' = messages
         \/ /\ Len(messages') = Len(messages) + 1
            /\ SubSeq(messages', 1, Len(messages)) = messages]_vars

\* the list holds entries of two sockets of the same page: the page has
\* reconnected and kept its entries
C5_Witness ==
    /\ mounted
    /\ \E i, j \in DOMAIN messages :
          /\ i < j
          /\ messages[i].sock # messages[j].sock
          /\ sockets[messages[i].sock].live
          /\ sockets[messages[j].sock].live

\* what a call of sendMessage with input v would do in the current state
SendResult(v) == sendMessage(v, wsRef, sockets, messages, connectionError)

\* C6: in every state sendMessage sends a frame and adds a user entry only if
\* the socket in wsRef is OPEN, and no step sends a frame on a socket that
\* is closed.
C6_SendOnlyWhenOpen ==
    /\ [](\A v \in Inputs :
            SendResult(v).sockets # sockets \/ SendResult(v).messages # messages
                => wsRef # 0 /\ sockets[wsRef].state = "OPEN")
    /\ [][\A s \in DOMAIN sockets :
            sockets[s].state = "CLOSED" =>
                /\ sockets'[s].sent = sockets[s].sent
                /\ sockets'[s].state = "CLOSED"]_vars

\* the socket in wsRef was closed with 4002 before anything was sent on it;
\* the page is still mounted and the user has typed a message
C6_Witness ==
    /\ mounted
    /\ wsRef # 0
    /\ sockets[wsRef].state = "CLOSED"
    /\ sockets[wsRef].code = InvalidCredential
    /\ sockets[wsRef].sent = <<>>
    /\ trim(inputMessage) # <<>>
    /\ \A i \in DOMAIN messages : ~IsUser(messages[i])

\* sendMessage can be called: the textarea and the Send button are enabled
\* only when isConnected
CanCallSend == mounted /\ isConnected

\* C7, as claimed: sendMessage with an empty or whitespace-only input sends
\* nothing, adds no entry for the user and reports an error.
C7_BlankRejectedWithError ==
    CanCallSend /\ trim(inputMessage) = <<>> =>
        LET r == SendResult(inputMessage)
        IN  /\ r.sockets = sockets
            /\ \/ r.connectionError # ""
               \/ /\ Len(r.messages) = Len(messages) + 1
                  /\ r.messages[Len(r.messages)].type = "error"

\* C7, amended: sendMessage with an empty or whitespace-only input returns at
\* once: nothing is sent, the message list, the input and connectionError are
\* left as they are, and no error message is produced.
C7_BlankIgnored ==
    CanCallSend /\ trim(inputMessage) = <<>> =>
        SendResult(inputMessage) =
            [messages |-> messages, sockets |-> sockets,
             inputMessage |-> inputMessage, connectionError |-> connectionError]

\* a whitespace-only input on an open connection
C7_Witness ==
    /\ CanCallSend
    /\ inputMessage # <<>>
    /\ trim(inputMessage) = <<>>
    /\ wsRef # 0
    /\ sockets[wsRef].state = "OPEN"

----------------------------------------------------------------------------
\* C8, as claimed: once logout() has run, user and token are null, nothing is
\* stored and the session is not authenticated, and user and token stay null
\* until login() is called again, whatever responses arrive.
C8_LogoutClearsSession ==
    sinceLogout => user = Null /\ token = Null /\ ~isAuthenticated

\* C9: when the /me request of the mount effect fails, the session is cleared
\* (token and user null, no 'token' in localStorage) and isLoading is false.
C9_ExpiredTokenCleared ==
    [][\A r \in requests :
         r.origin = "mount" /\ MeFail(r) =>
            /\ token' = Null
            /\ user' = Null
            /\ stored' = Null
            /\ ~isLoading']_vars

\* the /me request of the mount effect has failed while the sign-in form
\* waits for /login: logout() ran after login() was called, no chat page was
\* ever shown, and the session is cleared
C9_Witness ==
    /\ \E r \in requests : r.kind = "login"
    /\ sinceLogout
    /\ sockets = <<>>
    /\ token = Null /\ user = Null /\ stored = Null
    /\ ~isLoading

\* C10, as claimed: the session is authenticated exactly when token and user
\* are not null, and then user is the identity /me returns for that token.
C10_AuthenticatedIffVerified ==
    /\ isAuthenticated <=> (token # Null /\ user # Null)
    /\ isAuthenticated => user = Identity(token)

----------------------------------------------------------------------------
----------------------------------------------------------------------------
\* C12, as claimed: a blocked entry of the message list names the layer that
\* blocked it: 'Llama Guard' for the content-safety layer, 'Guardrails' for
\* the layer guardrails.
C12_ShowsBlockingLayer ==
    \A i \in DOMAIN messages :
        messages[i].type = "blocked" =>
            /\ messages[i].layer = "content_safety" =>
                    BlockedBy(messages[i]) = "Llama Guard"
            /\ messages[i].layer = "guardrails" =>
                    BlockedBy(messages[i]) = "Guardrails"

\* the type set of ChatMessage
ChatMessageTypes ==
    {"user", "assistant", "blocked", "pii_detected", "connection", "error"}

\* C13, as claimed: every entry of the message list has the style of its
\* type: user blue, assistant gray, blocked red, connection green, error
\* orange, and no type of ChatMessage has the default style.
C13_EveryTypeStyled ==
    \A i \in DOMAIN messages :
        LET type == messages[i].type
            style == getMessageStyles(type)
        IN  /\ type \in ChatMessageTypes
            /\ type = "user" => style = "blue"
            /\ type = "assistant" => style = "gray"
            /\ type = "blocked" => style = "red"
            /\ type = "connection" => style = "green"
            /\ type = "error" => style = "orange"
            /\ style # "default"

----------------------------------------------------------------------------
\* C14: receiving a frame of type error or blocked on a socket of the page
\* appends it and leaves the socket in its state and isConnected, isConnecting,
\* connectionError, token and user unchanged; if the socket is the open socket
\* of wsRef, sendMessage still sends every non-blank input afterwards.
C14_FrameNotFatal ==
    [][\A s \in DOMAIN sockets :
         OnMessage(s) /\ Current(s)
                      /\ Head(sockets[s].outbox).type \in {"error", "blocked"} =>
            /\ UNCHANGED <<isConnected, isConnecting, connectionError, token,
                           user, wsRef, mounted>>
            /\ sockets'[s].state = sockets[s].state
            /\ messages' = Append(messages, Head(sockets[s].outbox))
            /\ s = wsRef /\ sockets[s].state = "OPEN" =>
                  \A v \in Inputs :
                      trim(v) # <<>> =>
                          sendMessage(v, wsRef', sockets', messages',
                                      connectionError').sockets[s].sent
                              = Append(sockets'[s].sent, v)]_vars

\* an error frame was received as the answer of a turn, the connection is
\* still open and the user has typed the next message, which can be sent
C14_Witness ==
    /\ mounted /\ isConnected
    /\ wsRef # 0
    /\ sockets[wsRef].state = "OPEN"
    /\ messages # <<>>
    /\ messages[Len(messages)].type = "error"
    /\ messages[Len(messages)].sock = wsRef
    /\ trim(inputMessage) # <<>>
    /\ SendResult(inputMessage).sockets[wsRef].sent
          = Append(sockets[wsRef].sent, inputMessage)

----------------------------------------------------------------------------
\* C15, as claimed: of any two entries of the message list that carry a
\* timestamp, the earlier one has the smaller or the same timestamp.
C15_TimestampMonotonic ==
    \A i, j \in DOMAIN messages :
        i < j /\ messages[i].timestamp > 0 /\ messages[j].timestamp > 0
            => messages[i].timestamp <= messages[j].timestamp

----------------------------------------------------------------------------
SubmitResult(q) == handleSubmit(q, selectedModel, loading, response, error, pending)

\* C17: handleSubmit with an empty or whitespace-only query sets the error
\* 'Please enter a query', sends no /query request and leaves loading and
\* response as they are.
C17_BlankQueryRejected ==
    \A q \in Inputs :
        trim(q) = <<>> =>
            SubmitResult(q) = [loading |-> loading, response |-> response,
                               error |-> ErrEnterQuery, pending |-> pending]

\* a response is displayed and the query has been replaced by blanks
C17_Witness ==
    /\ response # NoResponse
    /\ ~loading
    /\ query # <<>>
    /\ trim(query) = <<>>
    /\ SubmitResult(query).response = response
    /\ SubmitResult(query).error = ErrEnterQuery

----------------------------------------------------------------------------
\* C18, as claimed: when login() resolves (the /me request it made has been
\* answered, with or without success), token and user are not null, the token
\* is in localStorage and the session is authenticated.
C18_LoginResolvedAuthenticated ==
    [][\A r \in requests :
         r.kind = "me" /\ r.origin = "login" /\ (MeOk(r) \/ MeFail(r)) =>
            /\ token' # Null
            /\ user' # Null
            /\ stored' = token']_vars

\* C19: a step that leaves the token null while the chat page is shown opens
\* no socket, takes the page away and leaves the location /signin; no socket is
\* ever opened without a token and the chat page is never shown without one;
\* connectWebSocket without a token only sets the error 'No authentication
\* token'.
C19_NoTokenNoSocket ==
    /\ [][mounted /\ token' = Null =>
            /\ Len(sockets') = Len(sockets)
            /\ ~mounted'
            /\ route' = "/signin"]_vars
    /\ [][Len(sockets') > Len(sockets) => token' # Null /\ mounted']_vars
    /\ [](mounted => token # Null)
    /\ [](connectWebSocket(Null, sockets, wsRef, isConnecting, connectionError)
            = [sockets |-> sockets, wsRef |-> wsRef, isConnecting |-> isConnecting,
               connectionError |-> ErrNoToken])

\* the token was cleared while the chat page was shown with a connection in
\* the making: the page is gone, the location is /signin and no further
\* socket was opened
C19_Witness ==
    /\ token = Null
    /\ sinceLogout
    /\ ~mounted
    /\ route = "/signin"
    /\ wsRef = 0
    /\ Len(sockets) = 1
    /\ ~sockets[1].live
    /\ sockets[1].state = "CLOSING"

\* C20: when the chat page is mounted it opens one socket, held in wsRef and
\* connecting, with no click; when it is unmounted or the token changes, the
\* socket of wsRef is closed, wsRef is null after an unmount, and after a
\* change of the token it holds the one new socket, opened after the close.
C20_AutomaticConnection ==
    /\ [][~mounted /\ mounted' =>
            /\ Len(sockets') = Len(sockets) + 1
            /\ wsRef' = Len(sockets')
            /\ sockets'[wsRef'].state = "CONNECTING"
            /\ isConnecting']_vars
    /\ [][mounted /\ (~mounted' \/ token' # token) =>
            /\ wsRef # 0 => sockets'[wsRef].state \in {"CLOSING", "CLOSED"}
            /\ ~mounted' => wsRef' = 0 /\ Len(sockets') = Len(sockets)
            /\ mounted' =>
                  /\ Len(sockets') = Len(sockets) + 1
                  /\ wsRef' = Len(sockets')
                  /\ sockets'[wsRef'].state = "CONNECTING"]_vars

\* the token has changed under the mounted page: its first socket was closed
\* by the page and wsRef holds the second
C20_Witness ==
    /\ mounted
    /\ Len(sockets) = 2
    /\ sockets[1].live /\ sockets[1].state = "CLOSING"
    /\ sockets[2].live
    /\ wsRef = 2

----------------------------------------------------------------------------
\* C21, as claimed: isConnected is true only if the socket held in wsRef is
\* OPEN, and isConnecting is true only if that socket is CONNECTING.
C21_FlagsDescribeCurrentSocket ==
    /\ isConnected => wsRef # 0 /\ sockets[wsRef].state = "OPEN"
    /\ isConnecting => wsRef # 0 /\ sockets[wsRef].state = "CONNECTING"

\* the sockets created by the mounted page that are CONNECTING or OPEN
ActiveSockets ==
    {s \in DOMAIN sockets :
        sockets[s].live /\ sockets[s].state \in {"CONNECTING", "OPEN"}}

\* C22, as claimed: at most one socket created by the chat page instance is
\* CONNECTING or OPEN.
C22_OneActiveSocket == Cardinality(ActiveSockets) <= 1

----------------------------------------------------------------------------
\* C23, as claimed: the logout scheduled by a 4001/4002 close never clears a
\* token and user established by a login() that resolved after the close (the
\* timer that goes off was set before the last login() resolved), and a close
\* schedules at most one logout.
C23_LogoutOnlyRejectedSession ==
    /\ [][timers' < timers /\ staleTimers > 0 =>
            UNCHANGED <<token, user, stored>>]_vars
    /\ [][timers' <= timers + 1]_vars

----------------------------------------------------------------------------
\* the frames of socket s in the message list, in the order of the list
Received(msgs, s) ==
    LET Test(e) == e.type # "user" /\ e.sock = s
    IN  SelectSeq(msgs, Test)

----------------------------------------------------------------------------
\* C25: in every state and for every input, sendMessage appends a user entry
\* with the text of the input exactly when it sends that text on the socket of
\* wsRef, and then clears the input; otherwise it leaves the message list and
\* the input as they are, and when the input is not blank and the socket is
\* not OPEN it sets connectionError and nothing else. The user entries of a
\* socket in the list are, in order, texts sent on it.
C25_EntriesMatchFrames ==
    /\ \A v \in Inputs :
          LET r == SendResult(v)
              sends == r.sockets # sockets
              appends == r.messages # messages
              open == wsRef # 0 /\ sockets[wsRef].state = "OPEN"
          IN  /\ appends <=> sends
              /\ sends =>
                    /\ r.sockets = [sockets EXCEPT ![wsRef].sent = Append(@, v)]
                    /\ Len(r.messages) = Len(messages) + 1
                    /\ SubSeq(r.messages, 1, Len(messages)) = messages
                    /\ r.messages[Len(r.messages)].type = "user"
                    /\ r.messages[Len(r.messages)].text = v
                    /\ r.inputMessage = <<>>
                    /\ r.connectionError = connectionError
              /\ ~sends => r.inputMessage = v
              /\ trim(v) # <<>> /\ ~open =>
                    /\ ~sends
                    /\ r.connectionError = ErrNotConnected
    /\ \A i \in DOMAIN messages :
          IsUser(messages[i]) =>
              /\ messages[i].turn \in DOMAIN sockets[messages[i].sock].sent
              /\ sockets[messages[i].sock].sent[messages[i].turn] = messages[i].text

\* a message was sent: its entry is the last of the list, its text is the last
\* sent on the open socket, and the input is empty
C25_Witness ==
    /\ mounted
    /\ wsRef # 0
    /\ sockets[wsRef].state = "OPEN"
    /\ messages # <<>>
    /\ IsUser(messages[Len(messages)])
    /\ sockets[wsRef].sent = <<messages[Len(messages)].text>>
    /\ inputMessage = <<>>

----------------------------------------------------------------------------
\* C30: the step in which /login fails leaves token, user and the 'token'
\* entry of localStorage as they are, starts no /me request and leaves the
\* location and the chat page alone; the Error thrown carries the server's
\* detail when there is one.
C30_FailedLoginChangesNothing ==
    /\ [][\A r \in requests :
            r.kind = "login" /\ LoginFail(r) =>
                /\ UNCHANGED <<token, user, stored, route, mounted, sockets>>
                /\ requests' = requests \ {r}]_vars
    /\ [](\A d \in Details : d # Null => loginError(d) = d)

\* after a logout from the chat login() was called and /login has failed: no
\* request is in flight, the sign-in page is still shown and the session is as
\* the logout left it
C30_Witness ==
    /\ authMounted
    /\ sockets # <<>>
    /\ ~sinceLogout
    /\ requests = {}
    /\ route = "/signin"
    /\ token = Null /\ user = Null /\ stored = Null

----------------------------------------------------------------------------
\* C27: at most one /query request is in flight; loading is true exactly while
\* one is, no request is started while loading is true, and the step that
\* ends a request, with a response or with a failure, leaves loading false.
C27_OneQueryInFlight ==
    /\ [](Cardinality(pending) <= 1)
    /\ [](loading <=> pending # {})
    /\ [][loading => pending' \subseteq pending]_vars
    /\ [][pending' # pending /\ pending' \subseteq pending => ~loading']_vars

\* a request for a model other than the default one is in flight
C27_Witness ==
    /\ loading
    /\ Cardinality(pending) = 1
    /\ response = NoResponse
    /\ \E req \in pending : req.model # "llama-3.1-8b-instant"

----------------------------------------------------------------------------
\* C28: while one upload goes on, every change of uploadProgress moves to the
\* same or a later stage and to the same or a higher percent.
C28_ProgressForward ==
    [][/\ uploadCount' = uploadCount
       /\ uploadProgress # NoProgress
       /\ uploadProgress' # NoProgress
       => /\ StageRank(uploadProgress'.stage) >= StageRank(uploadProgress.stage)
          /\ uploadProgress'.percent >= uploadProgress.percent]_vars

\* C29: after an upload has failed uploadProgress is null until the next
\* upload starts, and a 3-second cleanup that runs after a later upload has
\* started changes neither uploadProgress nor uploadSuccess.
C29_TimersStayWithTheirUpload ==
    /\ [](uploadError # Null => uploadProgress = NoProgress)
    /\ [][/\ cleanupTimers # <<>>
          /\ cleanupTimers' = Tail(cleanupTimers)
          /\ Head(cleanupTimers) < uploadCount
          => UNCHANGED <<uploadProgress, uploadSuccess>>]_vars

----------------------------------------------------------------------------
\* C26: whenever no metrics request is in flight and the summary is shown,
\* the summary in metrics is the one fetched for the selected timeRange.
C26_SummaryOfSelectedRange ==
    (~MetricsInFlight /\ SummaryShown(metricsLoading, metricsError, metrics))
        => metrics.range = timeRange

====
